---- MODULE Spec2Model ----
(***************************************************************************)
(* Model of src/trie/trie_structure.rs: the structure of a radix-16 trie   *)
(* (TrieStructure), its lookup (node / existing_node_inner), the two-phase *)
(* insertion (Vacant::insert_storage_value, PrepareInsert::insert) and the *)
(* removal of a storage value (StorageNodeAccess::remove).                 *)
(*                                                                         *)
(* Option<T> is modelled as a sequence: None is <<>> and Some(x) is <<x>>. *)
(* A Rust slice index i is the TLA+ sequence index i + 1.                  *)
(***************************************************************************)
EXTENDS Integers, Sequences, FiniteSets, TLC

\* ---------------------------------------------------------------- bounds
\* Number of distinct nibble values the model draws keys from (the program
\* has 16; the children tables of the model have NumNibbles slots).
NumNibbles == 3
\* Longest key passed to node().
MaxKeyLen == 2
\* Largest number of nodes the arena may hold at once.
MaxNodes == 4
\* Keys longer than WideKeyLen use only the nibbles below NarrowNibbles.
WideKeyLen == 1
NarrowNibbles == 2

Nibbles == 0 .. (NumNibbles - 1)
\* The user data the caller passes to PrepareInsert::insert: it annotates
\* the new storage node with its key and the new branch node with the key
\* branch_node_key() reports, so that no two nodes carry the same data.
StorageUserData(key) == {key}
BranchUserData(key) == {key}

\* The keys passed to node(): every key of at most WideKeyLen nibbles, and
\* the keys of at most MaxKeyLen nibbles whose nibbles are all below
\* NarrowNibbles.
AllKeys == UNION {[1 .. n -> Nibbles] : n \in 0 .. MaxKeyLen}
Keys ==
    {k \in AllKeys :
        Len(k) <= WideKeyLen \/ \A i \in DOMAIN k : k[i] < NarrowNibbles}

\* ---------------------------------------------------------------- Option
None == <<>>
Some(x) == <<x>>
Unwrap(o) == o[1]

\* ---------------------------------------------------------------- slices
\* s[from..] of Rust, from being a 0-based index.
SliceFrom(s, from) == SubSeq(s, from + 1, Len(s))
\* s[..to] of Rust.
SliceTo(s, to) == SubSeq(s, 1, to)
\* <[T]>::starts_with
StartsWith(s, prefix) ==
    /\ Len(prefix) <= Len(s)
    /\ SubSeq(s, 1, Len(prefix)) = prefix

MinOf(S) == CHOOSE x \in S : \A y \in S : x <= y

\* ---------------------------------------------------------------- Node
\* [None; 16]
NoChildren == [c \in Nibbles |-> None]

\* Faulty variant: the node is created without its parent link.
Node_NoParent(parent, partial_key, children, has_storage_value, user_data) ==
    [parent |-> None, partial_key |-> partial_key, children |-> children,
     has_storage_value |-> has_storage_value, user_data |-> user_data]

\* Node { parent, partial_key, children, has_storage_value, user_data }
Node(parent, partial_key, children, has_storage_value, user_data) ==
    [parent |-> parent, partial_key |-> partial_key, children |-> children,
     has_storage_value |-> has_storage_value, user_data |-> user_data]

\* children.iter().filter(|c| c.is_some()).count()
CountChildren(children) == Cardinality({c \in Nibbles : children[c] # None})

\* children.iter().filter_map(|c| *c).next()
FirstChild(children) ==
    LET S == {c \in Nibbles : children[c] # None}
    IN  IF S = {} THEN None ELSE children[MinOf(S)]

\* ---------------------------------------------------------------- Slab
\* The arena is a function from the occupied indices to their nodes; free
\* is the slab's list of vacant slots, most recently freed first.
\* Slab::insert returns the head of the free list, or the length of the
\* entry vector when no slot is free.
SlabLen(ns, fr) == Cardinality(DOMAIN ns) + Len(fr)
SlabNextKey(ns, fr) == IF fr # <<>> THEN Head(fr) ELSE SlabLen(ns, fr)
SlabInsert(ns, key, node) ==
    [i \in (DOMAIN ns) \cup {key} |-> IF i = key THEN node ELSE ns[i]]
SlabFreeAfterInsert(fr) == IF fr # <<>> THEN Tail(fr) ELSE fr
\* Faulty variant: the slot is not vacated.
SlabRemove_Keeps(ns, key) == ns
SlabRemove(ns, key) == [i \in (DOMAIN ns) \ {key} |-> ns[i]]
SlabFreeAfterRemove(fr, key) == <<key>> \o fr

\* ---------------------------------------------------------------- Navigator
\* TrieStructure::reverse_node_path: successors(Some(target), |current|
\* Some(nodes[current].parent?.0)).skip(1)
RECURSIVE reverse_node_path(_, _)
reverse_node_path(ns, target) ==
    IF ns[target].parent = None THEN <<>>
    ELSE LET p == Unwrap(ns[target].parent)[1]
         IN  <<p>> \o reverse_node_path(ns, p)

\* Iterator::take_while(|n| *n != current)
RECURSIVE TakeWhileNe(_, _)
TakeWhileNe(s, current) ==
    IF s = <<>> \/ Head(s) = current THEN <<>>
    ELSE <<Head(s)>> \o TakeWhileNe(Tail(s), current)

\* usize::max_value(): a value that is never the index of a node.
UsizeMax == MaxNodes

\* The successors of node_path: from current, the last element of
\* reverse_node_path(target) before current, until there is none.
RECURSIVE NodePathSuccessors(_, _, _)
NodePathSuccessors(ns, target, current) ==
    LET before == TakeWhileNe(reverse_node_path(ns, target), current)
    IN  IF before = <<>> THEN <<>>
        ELSE LET nxt == before[Len(before)]
             IN  <<nxt>> \o NodePathSuccessors(ns, target, nxt)

\* Faulty variant: the indices are yielded from the parent to the root.
node_path_Unreversed(ns, target) == reverse_node_path(ns, target)

\* TrieStructure::node_path
node_path(ns, target) == NodePathSuccessors(ns, target, UsizeMax)

\* The closure of node_full_key's flat_map: the inbound nibble, if any, then
\* the partial key.
NodeKeyPart(node) ==
    (IF node.parent = None THEN <<>> ELSE <<Unwrap(node.parent)[2]>>)
        \o node.partial_key

RECURSIVE FlatMapKeyParts(_, _)
FlatMapKeyParts(ns, path) ==
    IF path = <<>> THEN <<>>
    ELSE NodeKeyPart(ns[Head(path)]) \o FlatMapKeyParts(ns, Tail(path))

\* TrieStructure::node_full_key
node_full_key(ns, target) ==
    FlatMapKeyParts(ns, node_path(ns, target) \o <<target>>)

\* ---------------------------------------------------------------- lookup
Found(node_index, has_storage_value) ==
    [tag |-> "Found", node_index |-> node_index,
     has_storage_value |-> has_storage_value]
NotFound(closest_ancestor) ==
    [tag |-> "NotFound", closest_ancestor |-> closest_ancestor]

\* The loop of existing_node_inner, from the node current_index with key
\* being what the iterator has not yet yielded.
RECURSIVE ExistingNodeLoop(_, _, _, _)
ExistingNodeLoop(ns, current_index, key, closest_ancestor) ==
    LET current == ns[current_index]
    IN  IF ~StartsWith(key, current.partial_key)
        THEN NotFound(closest_ancestor)
        ELSE LET rest == SliceFrom(key, Len(current.partial_key))
             IN  IF rest = <<>>
                 THEN Found(current_index, current.has_storage_value)
                 ELSE LET child_index == Head(rest)
                      IN  IF current.children[child_index] # None
                          THEN ExistingNodeLoop(ns,
                                   Unwrap(current.children[child_index]),
                                   Tail(rest), Some(current_index))
                          ELSE NotFound(Some(current_index))

\* Faulty variant: the root is taken as the closest ancestor from the start.
existing_node_inner_RootAncestor(ns, root, key) ==
    IF root = None THEN NotFound(None)
    ELSE ExistingNodeLoop(ns, Unwrap(root), key, root)

\* TrieStructure::existing_node_inner
existing_node_inner(ns, root, key) ==
    IF root = None THEN NotFound(None)
    ELSE ExistingNodeLoop(ns, Unwrap(root), key, None)

\* NodeAccess::Storage / NodeAccess::Branch on the node node_index.
NodeAccess(node_index, has_storage_value) ==
    [access |-> IF has_storage_value THEN "Storage" ELSE "Branch",
     node_index |-> node_index]

\* TrieStructure::existing_node
existing_node(ns, root, key) ==
    LET r == existing_node_inner(ns, root, key)
    IN  IF r.tag = "Found"
        THEN Some(NodeAccess(r.node_index, r.has_storage_value))
        ELSE None

\* TrieStructure::node_by_index
node_by_index(ns, node_index) ==
    IF node_index \notin DOMAIN ns THEN None
    ELSE Some(NodeAccess(node_index, ns[node_index].has_storage_value))

\* StorageNodeAccess::is_root_node / BranchNodeAccess::is_root_node
is_root_node(root, node_index) == root = Some(node_index)

\* TrieStructure::root_node
root_node(ns, root) ==
    IF root = None THEN None ELSE node_by_index(ns, Unwrap(root))

\* Faulty variant: every node found is given a storage handle.
node_AlwaysStorage(ns, root, key) ==
    LET r == existing_node_inner(ns, root, key)
    IN  IF r.tag = "Found"
        THEN [entry |-> "Occupied", access |-> "Storage",
              node_index |-> r.node_index]
        ELSE [entry |-> "Vacant", closest_ancestor |-> r.closest_ancestor]

\* TrieStructure::node: the flavour of the Entry.
node(ns, root, key) ==
    LET r == existing_node_inner(ns, root, key)
    IN  IF r.tag = "Found"
        THEN [entry |-> "Occupied",
              access |-> IF r.has_storage_value THEN "Storage" ELSE "Branch",
              node_index |-> r.node_index]
        ELSE [entry |-> "Vacant", closest_ancestor |-> r.closest_ancestor]


\* ---------------------------------------------------------------- insertion
\* Faulty variant of PrepareInsertOne: the parent is not kept.
PrepareInsertOne_DropsParent(parent, partial_key, children) ==
    [tag |-> "One", parent |-> None, partial_key |-> partial_key,
     children |-> children]
PrepareInsertOne(parent, partial_key, children) ==
    [tag |-> "One", parent |-> parent, partial_key |-> partial_key,
     children |-> children]
PrepareInsertTwo(storage_child_index, storage_partial_key, branch_parent, branch_partial_key, branch_children) ==
    [tag |-> "Two", storage_child_index |-> storage_child_index,
     storage_partial_key |-> storage_partial_key,
     branch_parent |-> branch_parent,
     branch_partial_key |-> branch_partial_key,
     branch_children |-> branch_children]
\* The call does not return: a failed debug assertion, an index out of
\* bounds or unreachable!(). line is the source line that panics.
Panic(line) == [tag |-> "Panic", line |-> line]

\* Faulty variant: the loop is not run.
CommonPrefixLoop_Zero(k1, k2) == 0

\* `while k1.next() == k2.next() { len += 1 }` on two different slices.
RECURSIVE CommonPrefixLoop(_, _)
CommonPrefixLoop(k1, k2) ==
    IF k1 # <<>> /\ k2 # <<>> /\ Head(k1) = Head(k2)
    THEN 1 + CommonPrefixLoop(Tail(k1), Tail(k2))
    ELSE 0

\* Faulty variant: the two slices are taken in each other's place.
InsertBetweenCondition_Swapped(new_node_partial_key, existing_node_partial_key) ==
    StartsWith(existing_node_partial_key, new_node_partial_key)

\* The condition under which the new node is placed between the future
\* parent and the existing node.
InsertBetweenCondition(new_node_partial_key, existing_node_partial_key) ==
    StartsWith(new_node_partial_key, existing_node_partial_key)

\* [None; 16] with one entry set.
OneChild(child_index, node_index) ==
    [c \in Nibbles |-> IF c = child_index THEN Some(node_index) ELSE None]

\* The part of Vacant::insert_storage_value that follows the choice of
\* existing_node_index: the comparison of the two partial keys.
\* parent is the Node::parent of the node that takes the place of the
\* existing node.
InsertCompare(ns, key, parent, new_node_partial_key, existing_node_index) ==
    LET existing_node_partial_key == ns[existing_node_index].partial_key
        len == CommonPrefixLoop(new_node_partial_key,
                                existing_node_partial_key)
    IN  IF existing_node_partial_key = new_node_partial_key
        THEN Panic(836)
        ELSE IF StartsWith(new_node_partial_key, existing_node_partial_key)
        THEN Panic(837)
        ELSE IF InsertBetweenCondition(new_node_partial_key,
                                       existing_node_partial_key)
        THEN IF Len(new_node_partial_key) >= Len(existing_node_partial_key)
             THEN Panic(882)
             ELSE PrepareInsertOne(parent, new_node_partial_key,
                      OneChild(existing_node_partial_key[
                                   Len(new_node_partial_key) + 1],
                               existing_node_index))
        ELSE IF ~(len < Len(new_node_partial_key))
        THEN Panic(951)
        ELSE IF ~(len < Len(existing_node_partial_key))
        THEN Panic(952)
        ELSE IF existing_node_partial_key[len + 1]
                    = new_node_partial_key[len + 1]
        THEN Panic(961)
        ELSE PrepareInsertTwo(
                 new_node_partial_key[len + 1],
                 SliceFrom(new_node_partial_key, len + 1),
                 parent,
                 SliceTo(new_node_partial_key, len),
                 OneChild(existing_node_partial_key[len + 1],
                          existing_node_index))

\* Vacant::insert_storage_value
insert_storage_value(ns, root, key, closest_ancestor) ==
    IF closest_ancestor # None /\ root = None THEN Panic(768)
    ELSE IF closest_ancestor = None /\ root = None
    THEN PrepareInsertOne(None, key, NoChildren)
    ELSE IF closest_ancestor = None
    THEN InsertCompare(ns, key, None, key, Unwrap(root))
    ELSE LET future_parent_index == Unwrap(closest_ancestor)
             future_parent_key_len ==
                 Len(node_full_key(ns, future_parent_index))
         IN  IF ~(Len(key) > future_parent_key_len) THEN Panic(771)
             ELSE LET new_child_index == key[future_parent_key_len + 1]
                      slot == ns[future_parent_index].children[new_child_index]
                  IN  IF slot = None
                      THEN PrepareInsertOne(
                               Some(<<future_parent_index, new_child_index>>),
                               SliceFrom(key, future_parent_key_len + 1),
                               NoChildren)
                      ELSE IF Unwrap(ns[Unwrap(slot)].parent)[1]
                                  # future_parent_index
                      THEN Panic(795)
                      ELSE InsertCompare(ns, key,
                               Some(<<future_parent_index, new_child_index>>),
                               SliceFrom(key, future_parent_key_len + 1),
                               Unwrap(slot))


\* The trie after a mutation, with the index of the node the returned
\* handle refers to.
Committed(ns, root, fr, node_index) ==
    [nodes |-> ns, root_index |-> root, free |-> fr, node_index |-> node_index]

\* Faulty variant: the partial keys are cut but the parent links are left as they
\* were.
UpdateChildren_KeepParent(ns, children, new_index, new_partial_key_len) ==
    [i \in DOMAIN ns |->
        IF \E c \in Nibbles : children[c] = Some(i)
        THEN [ns[i] EXCEPT
                !.partial_key =
                    SliceFrom(ns[i].partial_key, new_partial_key_len + 1)]
        ELSE ns[i]]

\* Faulty variant: the parent links are set but the partial keys are not cut.
UpdateChildren_KeepPartialKey(ns, children, new_index, new_partial_key_len) ==
    [i \in DOMAIN ns |->
        IF \E c \in Nibbles : children[c] = Some(i)
        THEN [ns[i] EXCEPT
                !.parent = Some(<<new_index,
                                  CHOOSE c \in Nibbles : children[c] = Some(i)>>)]
        ELSE ns[i]]

\* "Update the children node to point to their new parent": every node
\* named in children gets the parent (new_index, its slot) and loses the
\* first new_partial_key_len + 1 nibbles of its partial key.
UpdateChildren(ns, children, new_index, new_partial_key_len) ==
    LET moved == {c \in Nibbles : children[c] # None}
        slotOf(i) == CHOOSE c \in moved : Unwrap(children[c]) = i
    IN  [i \in DOMAIN ns |->
            IF \E c \in moved : Unwrap(children[c]) = i
            THEN [ns[i] EXCEPT
                    !.parent = Some(<<new_index, slotOf(i)>>),
                    !.partial_key =
                        SliceFrom(ns[i].partial_key, new_partial_key_len + 1)]
            ELSE ns[i]]

\* Faulty variant: the slot of the parent is not written.
UpdateParentSlot_Skip(ns, parent, new_index) == ns

\* "Update the parent to point to its new child."
UpdateParentSlot(ns, parent, new_index) ==
    IF parent # None
    THEN [ns EXCEPT ![Unwrap(parent)[1]].children[Unwrap(parent)[2]] =
                        Some(new_index)]
    ELSE ns
\* Faulty variant: root_index is not written.
UpdateRoot_Keep(root, parent, new_index) == root
UpdateRoot(root, parent, new_index) ==
    IF parent # None THEN root ELSE Some(new_index)

\* PrepareInsertOne::insert
PrepareInsertOne_insert(ns, root, fr, p, user_data) ==
    LET new_node_index == SlabNextKey(ns, fr)
        ns1 == SlabInsert(ns, new_node_index,
                   Node(p.parent, p.partial_key, p.children, TRUE, user_data))
        ns2 == UpdateChildren(ns1, p.children, new_node_index,
                              Len(p.partial_key))
        ns3 == UpdateParentSlot(ns2, p.parent, new_node_index)
    IN  Committed(ns3, UpdateRoot(root, p.parent, new_node_index),
                  SlabFreeAfterInsert(fr), new_node_index)

\* PrepareInsertTwo::insert
PrepareInsertTwo_insert(ns, root, fr, p, storage_node_user_data, branch_node_user_data) ==
    LET new_branch_node_index == SlabNextKey(ns, fr)
        ns1 == SlabInsert(ns, new_branch_node_index,
                   Node(p.branch_parent, p.branch_partial_key,
                        p.branch_children, FALSE, branch_node_user_data))
        fr1 == SlabFreeAfterInsert(fr)
        new_storage_node_index == SlabNextKey(ns1, fr1)
        ns2 == SlabInsert(ns1, new_storage_node_index,
                   Node(Some(<<new_branch_node_index, p.storage_child_index>>),
                        p.storage_partial_key, NoChildren, TRUE,
                        storage_node_user_data))
        fr2 == SlabFreeAfterInsert(fr1)
        ns3 == [ns2 EXCEPT ![new_branch_node_index].children[
                                 p.storage_child_index] =
                               Some(new_storage_node_index)]
        ns4 == UpdateChildren(ns3, p.branch_children, new_branch_node_index,
                              Len(p.branch_partial_key))
        ns5 == UpdateParentSlot(ns4, p.branch_parent, new_branch_node_index)
    IN  Committed(ns5, UpdateRoot(root, p.branch_parent, new_branch_node_index),
                  fr2, new_storage_node_index)

\* Faulty variant: the two user data are taken in each other's place.
PrepareInsert_insert_SwapsUserData(ns, root, fr, p, storage_node_user_data, branch_node_user_data) ==
    IF p.tag = "One"
    THEN PrepareInsertOne_insert(ns, root, fr, p, branch_node_user_data)
    ELSE PrepareInsertTwo_insert(ns, root, fr, p, branch_node_user_data,
                                 storage_node_user_data)

\* PrepareInsert::insert
PrepareInsert_insert(ns, root, fr, p, storage_node_user_data, branch_node_user_data) ==
    IF p.tag = "One"
    THEN PrepareInsertOne_insert(ns, root, fr, p, storage_node_user_data)
    ELSE PrepareInsertTwo_insert(ns, root, fr, p, storage_node_user_data,
                                 branch_node_user_data)

\* The panics of the two loops that follow the allocation in
\* PrepareInsert*::insert: the source line of the first unwrap() or slice
\* index that fails, 0 when the commit runs to completion. child_line,
\* slice_line and parent_line are the lines of get_mut(*c).unwrap(), of
\* partial_key[len + 1..] and of get_mut(parent_index).unwrap().
CommitFailure(ns, parent, children, new_partial_key_len, child_line, slice_line, parent_line) ==
    LET moved == {c \in Nibbles : children[c] # None}
    IN  IF \E c \in moved : Unwrap(children[c]) \notin DOMAIN ns
        THEN child_line
        ELSE IF \E c \in moved :
                    Len(ns[Unwrap(children[c])].partial_key)
                        < new_partial_key_len + 1
        THEN slice_line
        ELSE IF parent # None /\ Unwrap(parent)[1] \notin DOMAIN ns
        THEN parent_line
        ELSE 0

\* The source line at which PrepareInsert::insert panics, 0 when it returns.
PrepareInsert_failure(ns, p) ==
    IF p.tag = "One"
    THEN CommitFailure(ns, p.parent, p.children, Len(p.partial_key),
                       1045, 1051, 1056)
    ELSE IF CountChildren(p.branch_children) # 1 THEN 1110
    ELSE CommitFailure(ns, p.branch_parent, p.branch_children,
                       Len(p.branch_partial_key), 1141, 1147, 1152)

\* Faulty variant: the nibble under which the branch node hangs is left out.
branch_node_key_NoNibble(ns, p) ==
    IF p.branch_parent # None
    THEN node_full_key(ns, Unwrap(p.branch_parent)[1]) \o p.branch_partial_key
    ELSE p.branch_partial_key

\* PrepareInsertTwo::branch_node_key
branch_node_key(ns, p) ==
    IF p.branch_parent # None
    THEN node_full_key(ns, Unwrap(p.branch_parent)[1])
             \o <<Unwrap(p.branch_parent)[2]>> \o p.branch_partial_key
    ELSE p.branch_partial_key

\* Faulty variant: the children of the node are cleared as well.
BranchNodeAccess_insert_storage_value_ClearsChildren(ns, node_index) ==
    [ns EXCEPT ![node_index].has_storage_value = TRUE,
               ![node_index].children = NoChildren]

\* BranchNodeAccess::insert_storage_value
BranchNodeAccess_insert_storage_value(ns, node_index) ==
    [ns EXCEPT ![node_index].has_storage_value = TRUE]

\* ---------------------------------------------------------------- removal
\* The outcome of StorageNodeAccess::remove: the trie afterwards, the
\* variant of Remove, the node of the handle it carries (child, sibling or
\* the node itself) and the user data it returns.
\* Faulty variant Removed_SwapsUserData: the two user data are returned in
\* each other's place.
Removed_SwapsUserData(outcome, ns, root, fr, handle, storage_user_data, branch_user_data) ==
    [outcome |-> outcome, nodes |-> ns, root_index |-> root, free |-> fr,
     handle |-> handle, storage_user_data |-> branch_user_data,
     branch_user_data |-> storage_user_data]
Removed(outcome, ns, root, fr, handle, storage_user_data, branch_user_data) ==
    [outcome |-> outcome, nodes |-> ns, root_index |-> root, free |-> fr,
     handle |-> handle, storage_user_data |-> storage_user_data,
     branch_user_data |-> branch_user_data]

\* "If the removed node has 2 or more children, then the node continues as
\* a branch node."
ContinuesAsBranch(n) == CountChildren(n.children) >= 2

\* The nodes after StorageToBranch is chosen.
StorageToBranchNodes(ns, node_index) == ns

\* Faulty variant: the inbound nibble of the node below is not pushed.
MergedPartialKey_NoNibble(removed, below) ==
    removed.partial_key \o below.partial_key

\* Faulty variant: the partial key of the node removed is not kept.
MergedPartialKey_DropsRemoved(removed, below) ==
    <<Unwrap(below.parent)[2]>> \o below.partial_key

\* The partial key a node gets when the node above it is removed.
MergedPartialKey(removed, below) ==
    removed.partial_key \o <<Unwrap(below.parent)[2]>> \o below.partial_key

\* Faulty variant: the parent link of the node below is left as it was.
AbsorbRemoved_KeepsParent(ns, removed, below_index) ==
    IF below_index = None THEN ns
    ELSE LET below == ns[Unwrap(below_index)]
         IN  [ns EXCEPT ![Unwrap(below_index)] =
                 [below EXCEPT
                     !.partial_key = MergedPartialKey(removed, below)]]

\* "If relevant, update our single child's parent to point to
\* removed_node's parent."
AbsorbRemoved(ns, removed, below_index) ==
    IF below_index = None THEN ns
    ELSE LET below == ns[Unwrap(below_index)]
         IN  [ns EXCEPT ![Unwrap(below_index)] =
                 [below EXCEPT
                     !.partial_key = MergedPartialKey(removed, below),
                     !.parent = removed.parent]]

\* parent.children[child_index] = child_node_index
SetSlot(ns, parent, value) ==
    [ns EXCEPT ![Unwrap(parent)[1]].children[Unwrap(parent)[2]] = value]

\* Faulty variants: the parent is always kept; the parent is kept with one child;
\* the storage value of the parent is not looked at; the parent is never kept.
KeepParent_Always(parent_node) == TRUE
KeepParent_Never(parent_node) == FALSE
KeepParent_OneChild(parent_node) ==
    parent_node.has_storage_value \/ CountChildren(parent_node.children) >= 1
KeepParent_IgnoresStorage(parent_node) ==
    CountChildren(parent_node.children) >= 2

\* "If parent does not need to be removed, we can return early."
KeepParent(parent_node) ==
    parent_node.has_storage_value \/ CountChildren(parent_node.children) >= 2

\* StorageNodeAccess::remove
remove(ns, root, fr, node_index) ==
    IF ContinuesAsBranch(ns[node_index])
    THEN Removed("StorageToBranch", StorageToBranchNodes(ns, node_index),
                 root, fr, Some(node_index), None, None)
    ELSE
    LET removed_node == ns[node_index]
        fr1 == SlabFreeAfterRemove(fr, node_index)
        child_node_index == FirstChild(removed_node.children)
        ns1 == AbsorbRemoved(SlabRemove(ns, node_index), removed_node,
                             child_node_index)
        ns2 == IF removed_node.parent # None
               THEN SetSlot(ns1, removed_node.parent, child_node_index)
               ELSE ns1
        root2 == IF removed_node.parent # None THEN root
                 ELSE child_node_index
        single_remove ==
            IF removed_node.parent # None
            THEN KeepParent(ns2[Unwrap(removed_node.parent)[1]])
            ELSE TRUE
    IN  IF single_remove
        THEN Removed("SingleRemove", ns2, root2, fr1, child_node_index,
                     Some(removed_node.user_data), None)
        ELSE
        LET parent_index == Unwrap(removed_node.parent)[1]
            removed_branch == ns2[parent_index]
            fr2 == SlabFreeAfterRemove(fr1, parent_index)
            sibling_node_index == FirstChild(removed_branch.children)
            ns3 == AbsorbRemoved(SlabRemove(ns2, parent_index),
                                 removed_branch, sibling_node_index)
            ns4 == IF removed_branch.parent # None
                   THEN SetSlot(ns3, removed_branch.parent, sibling_node_index)
                   ELSE ns3
            root4 == IF removed_branch.parent # None THEN root2
                     ELSE sibling_node_index
        IN  Removed("BranchAlsoRemoved", ns4, root4, fr2, sibling_node_index,
                    Some(removed_node.user_data),
                    Some(removed_branch.user_data))


\* The unwrap() calls and debug assertions of StorageNodeAccess::remove:
\* the source line of the first one that fails on the removal of
\* node_index, 0 when remove() runs to completion.
RemoveFailure(ns, node_index) ==
    IF node_index \notin DOMAIN ns THEN 406
    ELSE IF ContinuesAsBranch(ns[node_index]) THEN 0
    ELSE
    LET removed_node == ns[node_index]
        rest == (DOMAIN ns) \ {node_index}
        child_node_index == FirstChild(removed_node.children)
    IN  IF ~removed_node.has_storage_value THEN 420
        ELSE IF child_node_index # None /\ Unwrap(child_node_index) \notin rest
        THEN 429
        ELSE IF /\ child_node_index # None
                /\ \/ ns[Unwrap(child_node_index)].parent = None
                   \/ Unwrap(ns[Unwrap(child_node_index)].parent)[1]
                          # node_index
        THEN 430
        ELSE IF removed_node.parent = None THEN 0
        ELSE IF Unwrap(removed_node.parent)[1] \notin rest THEN 447
        ELSE IF ns[Unwrap(removed_node.parent)[1]].children[
                    Unwrap(removed_node.parent)[2]] # Some(node_index)
        THEN 448
        ELSE
        LET parent_index == Unwrap(removed_node.parent)[1]
            ns2 == SetSlot(AbsorbRemoved(SlabRemove(ns, node_index),
                                         removed_node, child_node_index),
                           removed_node.parent, child_node_index)
            removed_branch == ns2[parent_index]
            rest2 == (DOMAIN ns2) \ {parent_index}
            sibling_node_index == FirstChild(removed_branch.children)
        IN  IF KeepParent(removed_branch) THEN 0
            ELSE IF child_node_index # None THEN 491
            ELSE IF removed_branch.has_storage_value THEN 493
            ELSE IF sibling_node_index = None THEN 502
            ELSE IF Unwrap(sibling_node_index) \notin rest2 THEN 506
            ELSE IF \/ ns2[Unwrap(sibling_node_index)].parent = None
                    \/ Unwrap(ns2[Unwrap(sibling_node_index)].parent)[1]
                           # parent_index
            THEN 507
            ELSE IF removed_branch.parent = None THEN 0
            ELSE IF Unwrap(removed_branch.parent)[1] \notin rest2 THEN 520
            ELSE IF ns2[Unwrap(removed_branch.parent)[1]].children[
                        Unwrap(removed_branch.parent)[2]] # Some(parent_index)
            THEN 521
            ELSE 0

\* ---------------------------------------------------------------- state
VARIABLES
    nodes,       \* TrieStructure::nodes, the occupied slots of the slab
    free,        \* the vacant slots of the slab, most recently freed first
    root_index,  \* TrieStructure::root_index
    pc,          \* "idle", "prepared" (a PrepareInsert is held), "panicked"
    plan,        \* the PrepareInsert held, or the panic of the preparation
    last,        \* the last call: its name, its key and what it returned
    inserted,    \* the keys inserted and not removed since
    rt           \* after an insertion: its key, and the (full key, storage
                 \* flag) pairs the trie had before it

vars == <<nodes, free, root_index, pc, plan, last, inserted, rt>>

\* The set of (full key, storage flag) pairs of the trie.
Shape(ns) ==
    {<<node_full_key(ns, i), ns[i].has_storage_value>> : i \in DOMAIN ns}

Call(op, outcome, handle, storage_user_data, branch_user_data) ==
    [op |-> op, outcome |-> outcome, handle |-> handle,
     storage_user_data |-> storage_user_data,
     branch_user_data |-> branch_user_data]

NoRoundTrip == [phase |-> "none", key |-> <<>>, shape |-> {}]

\* TrieStructure::new
Init ==
    /\ nodes = [i \in {} |-> None]
    /\ free = <<>>
    /\ root_index = None
    /\ pc = "idle"
    /\ plan = None
    /\ last = Call("new", "", None, None, None)
    /\ inserted = {}
    /\ rt = NoRoundTrip

\* The number of nodes PrepareInsert::insert allocates.
PlanSize(p) == IF p.tag = "One" THEN 1 ELSE IF p.tag = "Two" THEN 2 ELSE 0

\* Faulty variant: the preparation already points root_index at the closest
\* ancestor.
VacantInsertStorageValue_MovesRoot(key) ==
    /\ pc = "idle"
    /\ LET e == node(nodes, root_index, key)
       IN  /\ e.entry = "Vacant"
           /\ LET p == insert_storage_value(nodes, root_index, key,
                                            e.closest_ancestor)
              IN  /\ Cardinality(DOMAIN nodes) + PlanSize(p) <= MaxNodes
                  /\ plan' = Some([key |-> key, prepare |-> p])
                  /\ pc' = IF p.tag = "Panic" THEN "panicked" ELSE "prepared"
                  /\ last' = Call("insert_storage_value", p.tag,
                                  None, None, None)
           /\ root_index' = e.closest_ancestor
    /\ rt' = NoRoundTrip
    /\ UNCHANGED <<nodes, free, inserted>>

\* trie.node(key).into_vacant().unwrap().insert_storage_value(): plan holds
\* the key of the Vacant and what the call produced.
VacantInsertStorageValue(key) ==
    /\ pc = "idle"
    /\ LET e == node(nodes, root_index, key)
       IN  /\ e.entry = "Vacant"
           /\ LET p == insert_storage_value(nodes, root_index, key,
                                            e.closest_ancestor)
              IN  /\ Cardinality(DOMAIN nodes) + PlanSize(p) <= MaxNodes
                  /\ plan' = Some([key |-> key, prepare |-> p])
                  /\ pc' = IF p.tag = "Panic" THEN "panicked" ELSE "prepared"
                  /\ last' = Call("insert_storage_value", p.tag,
                                  None, None, None)
    /\ rt' = NoRoundTrip
    /\ UNCHANGED <<nodes, free, root_index, inserted>>

\* PrepareInsert::insert(storage_node_user_data, branch_node_user_data)
Insert(storage_node_user_data, branch_node_user_data) ==
    /\ pc = "prepared"
    /\ LET p == Unwrap(plan).prepare
           c == PrepareInsert_insert(nodes, root_index, free, p,
                                     storage_node_user_data,
                                     branch_node_user_data)
       IN  IF PrepareInsert_failure(nodes, p) # 0
           THEN /\ pc' = "panicked"
                /\ last' = Call("insert", "Panic", None, None, None)
                /\ rt' = NoRoundTrip
                /\ UNCHANGED <<nodes, free, root_index, plan, inserted>>
           ELSE /\ nodes' = c.nodes
                /\ root_index' = c.root_index
                /\ free' = c.free
                /\ last' = Call("insert", p.tag, Some(c.node_index),
                                None, None)
                /\ pc' = "idle"
                /\ plan' = None
                /\ inserted' = inserted \cup {Unwrap(plan).key}
                /\ rt' = [phase |-> "inserted", key |-> Unwrap(plan).key,
                          shape |-> Shape(nodes)]

\* The PrepareInsert is dropped without a call of insert.
DropPrepareInsert ==
    /\ pc = "prepared"
    /\ pc' = "idle"
    /\ plan' = None
    /\ last' = Call("drop", "", None, None, None)
    /\ rt' = NoRoundTrip
    /\ UNCHANGED <<nodes, free, root_index, inserted>>

\* BranchNodeAccess::insert_storage_value on the handle node(key) returns,
\* or on the handle the preceding remove() returned in StorageToBranch.
BranchInsertStorageValue(key) ==
    /\ pc = "idle"
    /\ LET e == node(nodes, root_index, key)
       IN  /\ e.entry = "Occupied"
           /\ \/ e.access = "Branch"
              \/ /\ last.op = "remove"
                 /\ last.outcome = "StorageToBranch"
                 /\ last.handle = Some(e.node_index)
           /\ nodes' = BranchNodeAccess_insert_storage_value(nodes,
                                                             e.node_index)
           /\ last' = Call("branch_insert", "", Some(e.node_index),
                           None, None)
    /\ inserted' = inserted \cup {key}
    /\ rt' = [phase |-> "inserted", key |-> key, shape |-> Shape(nodes)]
    /\ UNCHANGED <<free, root_index, pc, plan>>

\* StorageNodeAccess::remove on the handle node(key) returns.
Remove(key) ==
    /\ pc = "idle"
    /\ LET e == node(nodes, root_index, key)
       IN  /\ e.entry = "Occupied"
           /\ e.access = "Storage"
           /\ IF RemoveFailure(nodes, e.node_index) # 0
              THEN /\ pc' = "panicked"
                   /\ last' = Call("remove", "Panic", None, None, None)
                   /\ UNCHANGED <<nodes, free, root_index, inserted>>
              ELSE LET r == remove(nodes, root_index, free, e.node_index)
                   IN  /\ nodes' = r.nodes
                       /\ root_index' = r.root_index
                       /\ free' = r.free
                       /\ last' = Call("remove", r.outcome, r.handle,
                                       r.storage_user_data,
                                       r.branch_user_data)
                       /\ inserted' = inserted \ {key}
                       /\ pc' = pc
    /\ rt' = NoRoundTrip
    /\ plan' = plan

\* The key of the Vacant that produced the PrepareInsert held, and the key
\* of the branch node it will create; when it creates none the caller
\* passes NoBranchKey, which is the key of no node.
PlanKey == IF plan = None THEN <<>> ELSE Unwrap(plan).key
NoBranchKey == <<NumNibbles>>
PlanBranchKey ==
    IF plan # None /\ Unwrap(plan).prepare.tag = "Two"
    THEN branch_node_key(nodes, Unwrap(plan).prepare)
    ELSE NoBranchKey

Next ==
    \/ \E key \in Keys : VacantInsertStorageValue(key)
    \/ \E s \in StorageUserData(PlanKey), b \in BranchUserData(PlanBranchKey) :
           Insert(s, b)
    \/ DropPrepareInsert
    \/ \E key \in Keys : BranchInsertStorageValue(key)
    \/ \E key \in Keys : Remove(key)

Spec == Init /\ [][Next]_vars


\* ---------------------------------------------------------------- claims
NodeIndexSet == DOMAIN nodes
FullKey(i) == node_full_key(nodes, i)
Entry(key) == node(nodes, root_index, key)
IsStorageEntry(e) == e.entry = "Occupied" /\ e.access = "Storage"

\* C1: every key inserted and not removed since is found by node() as
\* Occupied(Storage), and the full key of the handle is that key.
C1_InsertedKeysAreStorage ==
    \A key \in inserted :
        LET e == Entry(key)
        IN  /\ IsStorageEntry(e)
            /\ FullKey(e.node_index) = key

\* Two keys are inserted and the last call, a remove, has re-parented the
\* child of the node it freed.
C1_Witness ==
    /\ last.op = "remove"
    /\ last.outcome = "SingleRemove"
    /\ last.handle # None
    /\ Cardinality(inserted) >= 2

\* C2 (as claimed): a key that is not inserted is never Occupied(Storage),
\* and every node with has_storage_value has a full key that is inserted.
C2_OnlyInsertedKeysAreStorage ==
    /\ \A key \in Keys \ inserted : ~IsStorageEntry(Entry(key))
    /\ \A i \in NodeIndexSet :
           nodes[i].has_storage_value => FullKey(i) \in inserted

\* C3: every node without a storage value is the root or has at least two
\* children.
C3_BranchMinimality ==
    \A i \in NodeIndexSet :
        ~nodes[i].has_storage_value =>
            \/ root_index = Some(i)
            \/ CountChildren(nodes[i].children) >= 2

\* An insertion has created a branch node that is not the root.
C3_Witness ==
    /\ last.op = "insert"
    /\ last.outcome = "Two"
    /\ LET b == Unwrap(nodes[Unwrap(last.handle)].parent)[1]
       IN  /\ ~nodes[b].has_storage_value
           /\ root_index # Some(b)

\* C4: every node without a storage value, the root included, has at least
\* two children; so every node without children is a storage node.
C4_NoUselessNode ==
    /\ \A i \in NodeIndexSet :
           ~nodes[i].has_storage_value =>
               CountChildren(nodes[i].children) >= 2
    /\ \A i \in NodeIndexSet :
           CountChildren(nodes[i].children) = 0 => nodes[i].has_storage_value

\* The root is a branch node after a removal that freed a node.
C4_Witness ==
    /\ last.op = "remove"
    /\ last.outcome = "SingleRemove"
    /\ root_index # None
    /\ ~nodes[Unwrap(root_index)].has_storage_value

\* C5: the parent link of every node names an existing node whose child
\* slot points back; every child slot names an existing node whose parent
\* link is that slot; the root has no parent.
C5_ParentChildConsistency ==
    /\ \A i \in NodeIndexSet :
           nodes[i].parent # None =>
               LET p == Unwrap(nodes[i].parent)
               IN  /\ p[1] \in NodeIndexSet
                   /\ nodes[p[1]].children[p[2]] = Some(i)
    /\ \A i \in NodeIndexSet : \A c \in Nibbles :
           nodes[i].children[c] # None =>
               LET n == Unwrap(nodes[i].children[c])
               IN  /\ n \in NodeIndexSet
                   /\ nodes[n].parent = Some(<<i, c>>)
    /\ root_index # None =>
           /\ Unwrap(root_index) \in NodeIndexSet
           /\ nodes[Unwrap(root_index)].parent = None

\* A removal has freed a branch node and attached the sibling to the
\* parent of that branch node.
C5_Witness ==
    /\ last.op = "remove"
    /\ last.outcome = "BranchAlsoRemoved"
    /\ nodes[Unwrap(last.handle)].parent # None

\* C6: no two nodes have the same full key.
C6_FullKeyUniqueness ==
    \A i \in NodeIndexSet : \A j \in NodeIndexSet :
        i # j => FullKey(i) # FullKey(j)

\* The arena is full after an insertion that created two nodes.
C6_Witness ==
    /\ last.op = "insert"
    /\ last.outcome = "Two"
    /\ Cardinality(NodeIndexSet) = MaxNodes

\* No node has the full key key, and key ends inside the partial key of a
\* node whose full key it is a strict prefix of.
EndsInsidePartialKey(key) ==
    /\ Entry(key).entry = "Vacant"
    /\ \E x \in NodeIndexSet :
           /\ Len(key) < Len(FullKey(x))
           /\ SliceTo(FullKey(x), Len(key)) = key
           /\ Len(key) >= Len(FullKey(x)) - Len(nodes[x].partial_key)

\* C7 (as claimed): the preparation of the insertion of such a key returns,
\* and what it returns is a one-node insertion (no branch node) whose only
\* child is that node.
C7_PrefixInsertIsOneNode ==
    (plan # None /\ EndsInsidePartialKey(PlanKey)) =>
        /\ pc = "prepared"
        /\ Unwrap(plan).prepare.tag = "One"
        /\ CountChildren(Unwrap(plan).prepare.children) = 1

\* C8 (as claimed): after remove() returned StorageToBranch, the node of the
\* branch handle has no storage value.
C8_StorageToBranchClearsFlag ==
    (last.op = "remove" /\ last.outcome = "StorageToBranch") =>
        ~nodes[Unwrap(last.handle)].has_storage_value

\* C9 (as claimed): a remove() of the key that has just been inserted gives
\* back the (full key, storage flag) pairs the trie had before the
\* insertion.
C9_RoundTrip ==
    [][\A key \in Keys :
           (rt.phase = "inserted" /\ rt.key = key /\ Remove(key)) =>
               Shape(nodes') = rt.shape]_vars

\* The outcome the decision table gives for the removal of node n.
ExpectedOutcome(ns, n) ==
    LET children == CountChildren(ns[n].children)
        parent == ns[n].parent
    IN  IF children >= 2 THEN "StorageToBranch"
        ELSE IF /\ children = 0
                /\ parent # None
                /\ ~ns[Unwrap(parent)[1]].has_storage_value
                /\ CountChildren(ns[Unwrap(parent)[1]].children) = 2
        THEN "BranchAlsoRemoved"
        ELSE "SingleRemove"

\* C10: remove() returns StorageToBranch exactly when the node has two or
\* more children, BranchAlsoRemoved exactly when it has none and its parent
\* is a branch node with exactly two children, and SingleRemove otherwise.
C10_RemoveOutcome ==
    [][\A key \in Keys :
           Remove(key) =>
               last'.outcome =
                   ExpectedOutcome(nodes, Entry(key).node_index)]_vars

\* A leaf has been removed from under the root, a branch node that had
\* three children and keeps two.
C10_Witness ==
    /\ last.op = "remove"
    /\ last.outcome = "SingleRemove"
    /\ last.handle = None
    /\ Cardinality(NodeIndexSet) = 3
    /\ root_index # None
    /\ ~nodes[Unwrap(root_index)].has_storage_value
    /\ CountChildren(nodes[Unwrap(root_index)].children) = 2

\* C11 (as claimed): Vacant::insert_storage_value() and PrepareInsert::insert()
\* run to completion on every Vacant entry: neither of them panics.
C11_InsertionTotal ==
    ~(pc = "panicked" /\ last.op \in {"insert_storage_value", "insert"})

\* C12: remove() runs to completion on every storage node, and when it also
\* frees the parent, the node removed had no child and the parent had no
\* storage value and exactly two children, the node removed being one.
C12_RemovalTotal ==
    [][\A key \in Keys :
           Remove(key) =>
               /\ pc' # "panicked"
               /\ last'.outcome = "BranchAlsoRemoved" =>
                      LET n == Entry(key).node_index
                          parent == nodes[Unwrap(nodes[n].parent)[1]]
                      IN  /\ CountChildren(nodes[n].children) = 0
                          /\ ~parent.has_storage_value
                          /\ CountChildren(parent.children) = 2]_vars

\* A removal has freed the root, a branch node, and the sibling is the new
\* root.
C12_Witness ==
    /\ last.op = "remove"
    /\ last.outcome = "BranchAlsoRemoved"
    /\ root_index = last.handle
    /\ nodes[Unwrap(last.handle)].parent = None

\* The nodes whose full key is key, and those whose full key is a strictly
\* shorter prefix of key.
NodesAt(key) == {i \in NodeIndexSet : FullKey(i) = key}
ProperPrefixNodes(key) ==
    {i \in NodeIndexSet :
        Len(FullKey(i)) < Len(key) /\ StartsWith(key, FullKey(i))}

\* C13: node(K) is Occupied exactly when a node has the full key K; the
\* handle is then on that node, a storage handle exactly when the node has
\* a storage value, and existing_node(K) is Some of the same handle;
\* otherwise node(K) is Vacant and existing_node(K) is None.
C13_LookupFindsExactKey ==
    \A key \in AllKeys :
        LET e == Entry(key)
            x == existing_node(nodes, root_index, key)
        IN  IF NodesAt(key) # {}
            THEN /\ e.entry = "Occupied"
                 /\ e.node_index \in NodesAt(key)
                 /\ e.access = "Storage" <=>
                        nodes[e.node_index].has_storage_value
                 /\ x # None
                 /\ Unwrap(x).node_index = e.node_index
                 /\ Unwrap(x).access = e.access
            ELSE /\ e.entry = "Vacant"
                 /\ x = None

\* The trie holds a branch node and a storage node, and some key has no
\* node.
C13_Witness ==
    /\ \E i \in NodeIndexSet : ~nodes[i].has_storage_value
    /\ \E i \in NodeIndexSet : nodes[i].has_storage_value
    /\ \E key \in Keys : NodesAt(key) = {}
    /\ pc = "idle"

\* C14: the closest_ancestor of a Vacant entry is the node with the longest
\* full key among those whose full key is a strictly shorter prefix of the
\* key, and None exactly when there is no such node.
C14_ClosestAncestor ==
    \A key \in AllKeys :
        LET e == Entry(key)
            P == ProperPrefixNodes(key)
        IN  e.entry = "Vacant" =>
                IF P = {} THEN e.closest_ancestor = None
                ELSE /\ e.closest_ancestor # None
                     /\ Unwrap(e.closest_ancestor) \in P
                     /\ \A i \in P :
                            Len(FullKey(i))
                                <= Len(FullKey(Unwrap(e.closest_ancestor)))

\* A key is Vacant under a closest ancestor that is not the root: the
\* descent has gone through two nodes.
C14_Witness ==
    /\ pc = "idle"
    /\ \E key \in Keys :
           /\ Entry(key).entry = "Vacant"
           /\ Entry(key).closest_ancestor # None
           /\ Entry(key).closest_ancestor # root_index

\* C15: a committed insertion and a remove() leave every node that exists
\* before and after them at its index with its full key and its user data,
\* and with its storage flag unless it is the node that remove() turns
\* into a branch node.
C15_SurvivorsKeepIdentity ==
    [][last'.op \in {"insert", "remove"} =>
           \A i \in (DOMAIN nodes) \cap (DOMAIN nodes') :
               /\ node_full_key(nodes', i) = node_full_key(nodes, i)
               /\ nodes'[i].user_data = nodes[i].user_data
               /\ \/ nodes'[i].has_storage_value = nodes[i].has_storage_value
                  \/ /\ last'.op = "remove"
                     /\ last'.outcome = "StorageToBranch"
                     /\ last'.handle = Some(i)]_vars

\* The root has been removed and its only child, which has a child of its
\* own, is the new root.
C15_Witness ==
    /\ last.op = "remove"
    /\ last.outcome = "SingleRemove"
    /\ last.handle # None
    /\ last.handle = root_index
    /\ CountChildren(nodes[Unwrap(last.handle)].children) >= 1

\* C16: on the empty trie node(K) is Vacant with no closest ancestor for
\* every key, and the insertion committed on the empty trie leaves one
\* node: the root, a storage node without parent and children whose
\* partial key is the key inserted.
C16_EmptyTrieInsert ==
    /\ NodeIndexSet = {} =>
           \A key \in AllKeys :
               Entry(key) = [entry |-> "Vacant", closest_ancestor |-> None]
    /\ (last.op = "insert" /\ rt.phase = "inserted" /\ rt.shape = {}) =>
           /\ last.outcome = "One"
           /\ NodeIndexSet = {Unwrap(last.handle)}
           /\ root_index = last.handle
           /\ LET n == nodes[Unwrap(last.handle)]
              IN  /\ n.parent = None
                  /\ n.children = NoChildren
                  /\ n.has_storage_value
                  /\ n.partial_key = rt.key

\* A key of MaxKeyLen nibbles has been inserted into a trie emptied by
\* removals.
C16_Witness ==
    /\ last.op = "insert"
    /\ rt.phase = "inserted"
    /\ rt.shape = {}
    /\ Len(rt.key) = MaxKeyLen
    /\ free # <<>>

\* C17: Vacant::insert_storage_value() and the drop of the PrepareInsert it
\* returned leave root_index and every node as they were.
C17_PreparationDoesNotMutate ==
    [][last'.op \in {"insert_storage_value", "drop"} =>
           /\ nodes' = nodes
           /\ root_index' = root_index]_vars

\* A PrepareInsert has been dropped on a trie of three nodes or more.
C17_Witness ==
    /\ last.op = "drop"
    /\ pc = "idle"
    /\ Cardinality(NodeIndexSet) >= 3

\* C18: BranchNodeAccess::insert_storage_value() on node(key) sets the
\* storage flag of that node and changes nothing else; the handle returned
\* is on the same node.
C18_BranchInsertOnlySetsFlag ==
    [][\A key \in Keys :
           BranchInsertStorageValue(key) =>
               LET h == Entry(key).node_index
               IN  /\ last'.handle = Some(h)
                   /\ DOMAIN nodes' = DOMAIN nodes
                   /\ nodes'[h].has_storage_value
                   /\ \A i \in DOMAIN nodes :
                          /\ nodes'[i].parent = nodes[i].parent
                          /\ nodes'[i].children = nodes[i].children
                          /\ nodes'[i].partial_key = nodes[i].partial_key
                          /\ nodes'[i].user_data = nodes[i].user_data
                          /\ i # h => nodes'[i].has_storage_value
                                          = nodes[i].has_storage_value
                   /\ root_index' = root_index
                   /\ free' = free]_vars

\* A branch node that is not the root has been given a storage value.
C18_Witness ==
    /\ last.op = "branch_insert"
    /\ nodes[Unwrap(last.handle)].parent # None
    /\ CountChildren(nodes[Unwrap(last.handle)].children) >= 2

\* C19: root_index is None exactly when the arena holds no node (and
\* root_node() is then None), and remove() on the only node of the trie
\* returns SingleRemove without child and leaves the arena empty.
C19_RootNoneIffEmpty ==
    [][/\ root_index = None <=> DOMAIN nodes = {}
       /\ root_index' = None <=> DOMAIN nodes' = {}
       /\ root_node(nodes', root_index') = None <=> DOMAIN nodes' = {}
       /\ \A key \in Keys :
              (Remove(key) /\ Cardinality(DOMAIN nodes) = 1) =>
                  /\ last'.outcome = "SingleRemove"
                  /\ last'.handle = None
                  /\ root_index' = None
                  /\ DOMAIN nodes' = {}]_vars

\* The only node of the trie has been removed.
C19_Witness ==
    /\ last.op = "remove"
    /\ last.outcome = "SingleRemove"
    /\ last.handle = None
    /\ root_index = None
    /\ NodeIndexSet = {}

\* C20: SingleRemove carries the user data of the node freed,
\* BranchAlsoRemoved that of the storage node and that of its parent, both
\* freed, and StorageToBranch frees no node and leaves the user data of the
\* node in place.
C20_RemoveReturnsUserData ==
    [][\A key \in Keys :
           Remove(key) =>
               LET n == Entry(key).node_index
               IN  CASE last'.outcome = "SingleRemove" ->
                            /\ last'.storage_user_data
                                   = Some(nodes[n].user_data)
                            /\ last'.branch_user_data = None
                            /\ DOMAIN nodes' = (DOMAIN nodes) \ {n}
                     [] last'.outcome = "BranchAlsoRemoved" ->
                            LET b == Unwrap(nodes[n].parent)[1]
                            IN  /\ last'.storage_user_data
                                       = Some(nodes[n].user_data)
                                /\ last'.branch_user_data
                                       = Some(nodes[b].user_data)
                                /\ DOMAIN nodes' = (DOMAIN nodes) \ {n, b}
                     [] last'.outcome = "StorageToBranch" ->
                            /\ last'.storage_user_data = None
                            /\ last'.branch_user_data = None
                            /\ DOMAIN nodes' = DOMAIN nodes
                            /\ nodes'[n].user_data = nodes[n].user_data
                     [] OTHER -> FALSE]_vars

\* A removal has freed a storage node and its parent, a branch node whose
\* key is not empty, and returned the two user data.
C20_Witness ==
    /\ last.op = "remove"
    /\ last.outcome = "BranchAlsoRemoved"
    /\ last.storage_user_data # None
    /\ last.branch_user_data # None
    /\ Len(Unwrap(last.branch_user_data)) >= 1

\* The nodes a step creates.
Created == (DOMAIN nodes') \ (DOMAIN nodes)

\* C21: PrepareInsert::insert(storage_ud, branch_ud) stores storage_ud in
\* the node of the handle it returns, a new storage node whose full key is
\* the key requested; a Two plan creates one more node, the parent of that
\* node, a branch node that holds branch_ud; a One plan creates no other
\* node and branch_ud is held by no node afterwards.
C21_InsertStoresUserData ==
    [][\A s \in StorageUserData(PlanKey), b \in BranchUserData(PlanBranchKey) :
           (Insert(s, b) /\ pc' = "idle") =>
               LET h == Unwrap(last'.handle)
               IN  /\ h \in Created
                   /\ nodes'[h].user_data = s
                   /\ nodes'[h].has_storage_value
                   /\ node_full_key(nodes', h) = PlanKey
                   /\ IF Unwrap(plan).prepare.tag = "Two"
                      THEN LET br == Unwrap(nodes'[h].parent)[1]
                           IN  /\ Created = {h, br}
                               /\ br # h
                               /\ ~nodes'[br].has_storage_value
                               /\ nodes'[br].user_data = b
                      ELSE /\ Created = {h}
                           /\ \A i \in DOMAIN nodes' :
                                  nodes'[i].user_data # b]_vars

\* A One plan has been committed on a trie that holds a branch node: the
\* branch user data passed with it is in no node.
C21_Witness ==
    /\ last.op = "insert"
    /\ last.outcome = "One"
    /\ \E i \in NodeIndexSet : ~nodes[i].has_storage_value
    /\ \A i \in NodeIndexSet : nodes[i].user_data # NoBranchKey

\* For a key that is Vacant: the length of the full key of its closest
\* ancestor (0 without one), the slot the new node has to take (the child
\* slot of the closest ancestor, or root_index) and the nibbles of the key
\* that follow that slot.
AncestorKeyLen(key) ==
    IF Entry(key).closest_ancestor = None THEN 0
    ELSE Len(FullKey(Unwrap(Entry(key).closest_ancestor)))
TargetSlot(key) ==
    IF Entry(key).closest_ancestor = None THEN root_index
    ELSE nodes[Unwrap(Entry(key).closest_ancestor)].children[
             key[AncestorKeyLen(key) + 1]]
KeyTail(key) ==
    IF Entry(key).closest_ancestor = None THEN key
    ELSE SubSeq(key, AncestorKeyLen(key) + 2, Len(key))

\* The length of the longest common prefix of two sequences.
LcpLen(a, b) ==
    CHOOSE n \in 0 .. Len(a) :
        /\ n <= Len(b)
        /\ SubSeq(a, 1, n) = SubSeq(b, 1, n)
        /\ \A m \in (n + 1) .. Len(a) :
               m > Len(b) \/ SubSeq(a, 1, m) # SubSeq(b, 1, m)

\* The slot of key holds a node whose partial key and the tail of key have
\* a common prefix after which both go on, with different nibbles.
Diverges(key) ==
    /\ Entry(key).entry = "Vacant"
    /\ TargetSlot(key) # None
    /\ LET xp == nodes[Unwrap(TargetSlot(key))].partial_key
           c == LcpLen(KeyTail(key), xp)
       IN  c < Len(KeyTail(key)) /\ c < Len(xp)

\* C22: for such a key the preparation returns a Two plan, and its commit
\* creates two nodes: a branch node in the place of the node X of the slot,
\* whose partial key is the common prefix and whose two children are X and
\* the new storage leaf under their diverging nibbles, each with what
\* follows that nibble as partial key; the branch node is the root when X
\* was.
C22_BranchSplit ==
    [][/\ \A key \in Keys :
              (VacantInsertStorageValue(key) /\ Diverges(key)) =>
                  Unwrap(plan').prepare.tag = "Two"
       /\ \A s \in StorageUserData(PlanKey), b \in BranchUserData(PlanBranchKey) :
              (Insert(s, b) /\ Diverges(PlanKey)) =>
                  LET x == Unwrap(TargetSlot(PlanKey))
                      t == KeyTail(PlanKey)
                      xp == nodes[x].partial_key
                      c == LcpLen(t, xp)
                      h == Unwrap(last'.handle)
                      br == Unwrap(nodes'[h].parent)[1]
                  IN  /\ Created = {h, br}
                      /\ h # br
                      /\ xp[c + 1] # t[c + 1]
                      /\ nodes'[br].has_storage_value = FALSE
                      /\ nodes'[br].parent = nodes[x].parent
                      /\ nodes'[br].partial_key = SubSeq(t, 1, c)
                      /\ nodes'[br].children =
                             [n \in Nibbles |->
                                 IF n = xp[c + 1] THEN Some(x)
                                 ELSE IF n = t[c + 1] THEN Some(h)
                                 ELSE None]
                      /\ nodes'[x].parent = Some(<<br, xp[c + 1]>>)
                      /\ nodes'[x].partial_key = SubSeq(xp, c + 2, Len(xp))
                      /\ nodes'[h].has_storage_value = TRUE
                      /\ nodes'[h].parent = Some(<<br, t[c + 1]>>)
                      /\ nodes'[h].partial_key = SubSeq(t, c + 2, Len(t))
                      /\ nodes'[h].children = NoChildren
                      /\ IF nodes[x].parent = None
                         THEN root_index' = Some(br)
                         ELSE /\ root_index' = root_index
                              /\ nodes'[Unwrap(nodes[x].parent)[1]].children[
                                     Unwrap(nodes[x].parent)[2]] = Some(br)]_vars

\* The root has been split: the new branch node is the root and its partial
\* key, the common prefix, is not empty.
C22_Witness ==
    /\ last.op = "insert"
    /\ last.outcome = "Two"
    /\ root_index = Some(Unwrap(nodes[Unwrap(last.handle)].parent)[1])
    /\ nodes[Unwrap(root_index)].partial_key # <<>>

\* The closest ancestor of key exists and its child slot for key is empty.
FreeChildSlot(key) ==
    /\ Entry(key).entry = "Vacant"
    /\ Entry(key).closest_ancestor # None
    /\ TargetSlot(key) = None

\* C23: for such a key the preparation returns a One plan, and its commit
\* creates one node, a storage leaf under the closest ancestor A at the
\* nibble that follows the full key of A, with the rest of the key as
\* partial key; the child slot of A points to it and nothing else changes.
C23_FreeChildSlot ==
    [][/\ \A key \in Keys :
              (VacantInsertStorageValue(key) /\ FreeChildSlot(key)) =>
                  Unwrap(plan').prepare.tag = "One"
       /\ \A s \in StorageUserData(PlanKey), b \in BranchUserData(PlanBranchKey) :
              (Insert(s, b) /\ FreeChildSlot(PlanKey)) =>
                  LET a == Unwrap(Entry(PlanKey).closest_ancestor)
                      l == AncestorKeyLen(PlanKey)
                      h == Unwrap(last'.handle)
                  IN  /\ Created = {h}
                      /\ nodes'[h].parent = Some(<<a, PlanKey[l + 1]>>)
                      /\ nodes'[h].partial_key =
                             SubSeq(PlanKey, l + 2, Len(PlanKey))
                      /\ nodes'[h].children = NoChildren
                      /\ nodes'[h].has_storage_value = TRUE
                      /\ nodes'[a] =
                             [nodes[a] EXCEPT
                                 !.children[PlanKey[l + 1]] = Some(h)]
                      /\ \A i \in (DOMAIN nodes) \ {a} : nodes'[i] = nodes[i]
                      /\ root_index' = root_index]_vars

\* A third leaf has been attached to a branch node.
C23_Witness ==
    /\ last.op = "insert"
    /\ last.outcome = "One"
    /\ nodes[Unwrap(last.handle)].parent # None
    /\ LET a == nodes[Unwrap(nodes[Unwrap(last.handle)].parent)[1]]
       IN  ~a.has_storage_value /\ CountChildren(a.children) = 3

\* The children of node i of the trie before the step, as a set of
\* (nibble, index) pairs.
ChildrenOf(i) ==
    {<<c, Unwrap(nodes[i].children[c])>> :
        c \in {d \in Nibbles : nodes[i].children[d] # None}}

\* After the step, the place the parent link link named before it (a child
\* slot, or root_index for None) holds value.
PlaceHolds(link, value) ==
    IF link = None THEN root_index' = value
    ELSE /\ Unwrap(link)[1] \in DOMAIN nodes'
         /\ nodes'[Unwrap(link)[1]].children[Unwrap(link)[2]] = value

\* C24: a remove() that returns SingleRemove frees the node n only; a
\* single child c of n under the nibble k gets the parent link of n and
\* the partial key of n, k and its own, and the place of n (its slot in
\* its parent, or root_index) holds c; without a child that place is
\* empty. The child handle returned is c.
C24_SingleRemoveEffects ==
    [][\A key \in Keys :
           (Remove(key) /\ last'.outcome = "SingleRemove") =>
               LET n == Entry(key).node_index
               IN  /\ DOMAIN nodes' = (DOMAIN nodes) \ {n}
                   /\ Cardinality(ChildrenOf(n)) <= 1
                   /\ \A kc \in ChildrenOf(n) :
                          /\ nodes'[kc[2]].parent = nodes[n].parent
                          /\ nodes'[kc[2]].partial_key =
                                 nodes[n].partial_key \o <<kc[1]>>
                                     \o nodes[kc[2]].partial_key
                          /\ PlaceHolds(nodes[n].parent, Some(kc[2]))
                          /\ last'.handle = Some(kc[2])
                   /\ ChildrenOf(n) = {} =>
                          /\ PlaceHolds(nodes[n].parent, None)
                          /\ last'.handle = None]_vars

\* A root with a partial key that is not empty has been removed: its child
\* is the root and holds that partial key, its nibble and its own.
C24_Witness ==
    /\ last.op = "remove"
    /\ last.outcome = "SingleRemove"
    /\ last.handle # None
    /\ last.handle = root_index
    /\ Len(nodes[Unwrap(last.handle)].partial_key) >= 2

\* C25: a remove() that returns BranchAlsoRemoved frees the leaf n and its
\* parent P; the other child s of P, under the nibble k, gets the parent
\* link of P and the partial key of P, k and its own; the place of P holds
\* s; the sibling handle is s and the full key of s is what it was.
C25_BranchAlsoRemovedEffects ==
    [][\A key \in Keys :
           (Remove(key) /\ last'.outcome = "BranchAlsoRemoved") =>
               LET n == Entry(key).node_index
                   P == Unwrap(nodes[n].parent)[1]
                   others == {kc \in ChildrenOf(P) : kc[2] # n}
               IN  /\ DOMAIN nodes' = (DOMAIN nodes) \ {n, P}
                   /\ Cardinality(others) = 1
                   /\ \A kc \in others :
                          /\ nodes'[kc[2]].parent = nodes[P].parent
                          /\ nodes'[kc[2]].partial_key =
                                 nodes[P].partial_key \o <<kc[1]>>
                                     \o nodes[kc[2]].partial_key
                          /\ PlaceHolds(nodes[P].parent, Some(kc[2]))
                          /\ last'.handle = Some(kc[2])
                          /\ node_full_key(nodes', kc[2])
                                 = node_full_key(nodes, kc[2])]_vars

\* A branch node that was not the root has been freed with a leaf, and the
\* sibling has taken its place under the root.
C25_Witness ==
    /\ last.op = "remove"
    /\ last.outcome = "BranchAlsoRemoved"
    /\ nodes[Unwrap(last.handle)].parent # None
    /\ Cardinality(NodeIndexSet) = 2

\* C26: branch_node_key() of a Two plan is the full key the branch node has
\* once the plan is committed, and it is the longest common prefix of the
\* key requested and of the full key of the node in the slot.
C26_BranchNodeKey ==
    [][\A s \in StorageUserData(PlanKey), b \in BranchUserData(PlanBranchKey) :
           (Insert(s, b) /\ Unwrap(plan).prepare.tag = "Two") =>
               LET p == Unwrap(plan).prepare
                   x == Unwrap(TargetSlot(PlanKey))
                   br == Unwrap(nodes'[Unwrap(last'.handle)].parent)[1]
               IN  /\ branch_node_key(nodes, p) = node_full_key(nodes', br)
                   /\ branch_node_key(nodes, p) =
                          SubSeq(PlanKey, 1, LcpLen(PlanKey, FullKey(x)))]_vars

\* A Two plan has been committed under a parent: the key of the branch node
\* is not empty.
C26_Witness ==
    /\ last.op = "insert"
    /\ last.outcome = "Two"
    /\ LET br == Unwrap(nodes[Unwrap(last.handle)].parent)[1]
       IN  /\ nodes[br].parent # None
           /\ FullKey(br) # <<>>
           /\ nodes[br].user_data = FullKey(br)

\* C27: when the slot of a Vacant key holds a node, the tail of the key is
\* not the partial key of that node and does not start with it; so the
\* preparation fails neither of the assertions of lines 836 and 837 and
\* never returns a One plan that puts the new node above an existing one.
C27_TailNeverCoversPartialKey ==
    /\ \A key \in AllKeys :
           (Entry(key).entry = "Vacant" /\ TargetSlot(key) # None) =>
               LET xp == nodes[Unwrap(TargetSlot(key))].partial_key
                   t == KeyTail(key)
               IN  /\ t # xp
                   /\ ~(Len(xp) <= Len(t) /\ SubSeq(t, 1, Len(xp)) = xp)
    /\ plan # None =>
           LET p == Unwrap(plan).prepare
           IN  /\ p.tag = "Panic" => p.line \notin {836, 837, 882}
               /\ p.tag = "One" => p.children = NoChildren

\* A preparation has compared the tail of its key with the partial key of
\* the node in its slot, and the two have a common prefix.
C27_Witness ==
    /\ pc = "prepared"
    /\ Diverges(PlanKey)
    /\ LcpLen(KeyTail(PlanKey),
              nodes[Unwrap(TargetSlot(PlanKey))].partial_key) >= 1

\* C28: reverse_node_path(t) is the chain of the parents of t up to the
\* root, without t; node_path(t) is the same chain from the root down;
\* both are empty exactly for the root; node_full_key(t) is the full key of
\* the parent of t, the nibble under which t hangs and the partial key of
\* t.
C28_NodePaths ==
    \A t \in NodeIndexSet :
        LET r == reverse_node_path(nodes, t)
            p == node_path(nodes, t)
        IN  /\ \A i \in DOMAIN r : r[i] # t /\ r[i] \in NodeIndexSet
            /\ Len(r) < Cardinality(NodeIndexSet)
            /\ r = <<>> <=> root_index = Some(t)
            /\ p = <<>> <=> root_index = Some(t)
            /\ r # <<>> =>
                   /\ r[1] = Unwrap(nodes[t].parent)[1]
                   /\ \A i \in 1 .. (Len(r) - 1) :
                          r[i + 1] = Unwrap(nodes[r[i]].parent)[1]
                   /\ root_index = Some(r[Len(r)])
            /\ Len(p) = Len(r)
            /\ \A i \in DOMAIN p : p[i] = r[Len(r) + 1 - i]
            /\ node_full_key(nodes, t) =
                   IF nodes[t].parent = None THEN nodes[t].partial_key
                   ELSE node_full_key(nodes, Unwrap(nodes[t].parent)[1])
                            \o <<Unwrap(nodes[t].parent)[2]>>
                            \o nodes[t].partial_key

\* A node has two ancestors.
C28_Witness ==
    /\ pc = "idle"
    /\ \E t \in NodeIndexSet : Len(node_path(nodes, t)) = 2

\* The longest common prefix of two keys, and the (full key, storage flag)
\* pairs of the trie of a set of keys: the keys, and as branch nodes the
\* longest common prefixes of two of them that are not keys of the set.
Lcp(a, b) == SubSeq(a, 1, LcpLen(a, b))
CanonicalShape(S) ==
    {<<k, TRUE>> : k \in S}
        \cup {<<k, FALSE>> : k \in {Lcp(a, b) : a \in S, b \in S} \ S}

\* C29 (as claimed): the (full key, storage flag) pairs of the trie are
\* those of the trie of the keys inserted and not removed since.
C29_CanonicalShape == Shape(nodes) = CanonicalShape(inserted)

\* C30 (as claimed): the arena is empty when no key is inserted, and holds
\* at most 2n - 1 nodes when n >= 1 keys are.
C30_NoResidualNodes ==
    IF inserted = {} THEN NodeIndexSet = {}
    ELSE Cardinality(NodeIndexSet) <= 2 * Cardinality(inserted) - 1

\* The nodes of S and the nodes their child slots name; the nodes reached
\* from S through at most n child slots; the nodes reached from root_index.
WithChildren(S) ==
    S \cup {Unwrap(nodes[i].children[c]) :
               <<i, c>> \in {ic \in (S \cap NodeIndexSet) \X Nibbles :
                                nodes[ic[1]].children[ic[2]] # None}}
RECURSIVE Descendants(_, _)
Descendants(S, n) ==
    IF n = 0 THEN S ELSE Descendants(WithChildren(S), n - 1)
ReachableFromRoot ==
    IF root_index = None THEN {}
    ELSE Descendants({Unwrap(root_index)}, MaxNodes)

\* Following the parent links from node i ends, within n steps, on a node
\* without parent that is the root.
RECURSIVE ClimbsToRoot(_, _)
ClimbsToRoot(i, n) ==
    IF nodes[i].parent = None THEN is_root_node(root_index, i)
    ELSE /\ n > 0
         /\ Unwrap(nodes[i].parent)[1] \in NodeIndexSet
         /\ ClimbsToRoot(Unwrap(nodes[i].parent)[1], n - 1)

\* C31: the nodes of the arena are the nodes reached from root_index through
\* the child slots; the parent links of every node lead to the root in
\* fewer steps than there are nodes; and in a trie that is not empty one
\* node, the root, has no parent.
C31_NoOrphanNoCycle ==
    /\ ReachableFromRoot = NodeIndexSet
    /\ \A i \in NodeIndexSet :
           ClimbsToRoot(i, Cardinality(NodeIndexSet) - 1)
    /\ NodeIndexSet # {} =>
           /\ root_index # None
           /\ {i \in NodeIndexSet : nodes[i].parent = None}
                  = {Unwrap(root_index)}
    /\ \A i \in NodeIndexSet :
           is_root_node(root_index, i) <=> nodes[i].parent = None

\* After a removal the trie has three nodes, one under the other.
C31_Witness ==
    /\ last.op = "remove"
    /\ Cardinality(NodeIndexSet) = 3
    /\ \E i \in NodeIndexSet :
           /\ nodes[i].parent # None
           /\ nodes[Unwrap(nodes[i].parent)[1]].parent # None


====
